---- MODULE Spec2Model ----
(***************************************************************************)
(* A model of the rocBLAS wrapper layer:                                   *)
(*   - rocblas_hpmv_launcher_64, the 64-bit batch-chunking shim            *)
(*     (library/src/src64/blas2/rocblas_hpmv_kernels_64.cpp);              *)
(*   - rocblas_trtri_strided_batched_impl and its four C entry points      *)
(*     (library/src/blas3/rocblas_trtri_strided_batched.cpp);              *)
(*   - testing_spr2_batched_bad_arg, the argument test of                  *)
(*     rocblas_spr2_batched, and testing_spr2_batched, its functional test *)
(*     (clients/include/blas2/testing_spr2_batched.hpp);                   *)
(*   - testing_dot_bad_arg, testing_dot and testing_nrm2_bad_arg, tests of *)
(*     rocblas_dot, rocblas_dotc and rocblas_nrm2                          *)
(*     (clients/include/blas1/testing_dot.hpp, testing_nrm2.hpp).          *)
(* Each has its own specification (SpecHpmv, SpecTrtri, SpecSpr2BadArg,    *)
(* SpecSpr2Test, SpecBlas1); the variables of the others stay at their     *)
(* idle values.                                                            *)
(***************************************************************************)
EXTENDS Integers, Sequences, FiniteSets

VARIABLES
    \* rocblas_hpmv_launcher_64
    hp_pc,      \* "idle" | "entry" | "loop" | "done"
    hp_in,      \* the arguments the 64-bit launcher received
    hp_chunk,   \* value of c_i64_grid_YZ_chunk (an I64)
    hp_b_base,  \* loop variable b_base (an I64)
    hp_calls,   \* the calls made to rocblas_hpmv_launcher<rocblas_int>, in order
    hp_ret      \* the status returned, "none" while running

VARIABLES
    \* rocblas_{s,d,c,z}trtri_strided_batched
    tr_pc,      \* "idle" | "entry" | "impl" | "query" | "log" | "arg_check" | "dispatch"
                \*   | "returned" | "thrown" | "done"
    tr_in,      \* the arguments of the C entry point, and the type T it is for
    tr_nb,      \* the NB the implementation is instantiated with, 0 before the call
    tr_size,    \* the local `size` of the implementation, in bytes
    tr_trace,   \* the calls the implementation has made, in order: [op, arg, res]
    tr_impl,    \* the status the implementation returned, "none" if it has not
    tr_exc,     \* the exception the implementation threw, "none" if it has not
    tr_ret      \* the status the entry point returned, "none" while running

VARIABLES
    \* testing_spr2_batched_bad_arg
    sp_pc,      \* "idle" | "mode" | "calls" | "done"
    sp_arg,     \* the test's Arguments and type: [T, api]
    sp_mode,    \* position in {rocblas_pointer_mode_host, rocblas_pointer_mode_device}
    sp_step,    \* the next call of the loop body
    sp_log      \* the calls made so far: [mode, fn, args, expect, got]

VARIABLES
    \* testing_spr2_batched
    st_pc,      \* "idle" | "entry" | "setup" | ... | "done": the next statement
    st_arg,     \* the test's Arguments and type
    st_mem,     \* the host and device buffers of the test, by name
    st_i,       \* the loop variable of the repeatability and timing loops
    st_log      \* the library calls, reference calls and comparisons made so far

VARIABLES
    \* testing_dot_bad_arg, testing_dot, testing_nrm2_bad_arg
    b1_pc,      \* "idle" | "mode" | "calls" | "device" | "host" | "check" | "done"
    b1_arg,     \* the test's Arguments, type and template parameters
    b1_mode,    \* the pointer mode of the handle ("none" before it is set)
    b1_step,    \* the next call of the body
    b1_mem,     \* the result locations of the test, by name
    b1_log      \* the calls and comparisons made so far

hp_vars == <<hp_pc, hp_in, hp_chunk, hp_b_base, hp_calls, hp_ret>>

tr_vars == <<tr_pc, tr_in, tr_nb, tr_size, tr_trace, tr_impl, tr_exc, tr_ret>>

sp_vars == <<sp_pc, sp_arg, sp_mode, sp_step, sp_log>>

st_vars == <<st_pc, st_arg, st_mem, st_i, st_log>>

b1_vars == <<b1_pc, b1_arg, b1_mode, b1_step, b1_mem, b1_log>>

vars == <<hp_vars, tr_vars, sp_vars, st_vars, b1_vars>>

(***************************************************************************)
(* 64-bit integers.  TLC's integers are 32 bits wide, so an int64_t is a   *)
(* pair <<hi, lo>> standing for hi * 2^16 + lo with 0 <= lo < 2^16.  All   *)
(* values of the model stay far inside the int64_t range, so int64_t       *)
(* arithmetic itself never wraps; the narrowing to int32_t does.           *)
(***************************************************************************)
Limb == 2^16

I64Norm(h, l) == <<h + (l \div Limb), l % Limb>>

I64(i) == I64Norm(0, i)

I64Add(a, b) == I64Norm(a[1] + b[1], a[2] + b[2])

I64Sub(a, b) == I64Norm(a[1] - b[1], a[2] - b[2])

\* a * k for a small int k
I64MulSmall(a, k) == I64Norm(a[1] * k, a[2] * k)

I64Less(a, b) == a[1] < b[1] \/ (a[1] = b[1] /\ a[2] < b[2])

I64Leq(a, b) == a = b \/ I64Less(a, b)

I64IsZero(a) == a = <<0, 0>>

\* std::min on int64_t
I64Min(a, b) == IF I64Less(b, a) THEN b ELSE a

\* std::numeric_limits<int32_t>::max() as an int64_t: 2^31 - 1
c_i32_max == <<2^15 - 1, Limb - 1>>

\* int32_t(v): keep the low 32 bits, read as two's complement
ToInt32(a) == (((a[1] + 2^15) % Limb) - 2^15) * Limb + a[2]

\* the exact value of an I64 that fits 32 bits, as an I64 again
FromInt32(i) == I64Norm(0, i)

(***************************************************************************)
(* rocblas_status values and other enumerations                            *)
(***************************************************************************)
success == "rocblas_status_success"

invalid_handle == "rocblas_status_invalid_handle"

invalid_size == "rocblas_status_invalid_size"

invalid_pointer == "rocblas_status_invalid_pointer"

invalid_value == "rocblas_status_invalid_value"

memory_error == "rocblas_status_memory_error"

internal_error == "rocblas_status_internal_error"

size_unchanged == "rocblas_status_size_unchanged"

size_increased == "rocblas_status_size_increased"

continue == "rocblas_status_continue"

Fills == {"rocblas_fill_upper", "rocblas_fill_lower"}

(***************************************************************************)
(* Pointers.  A pointer is [base, off]: an allocation and an element       *)
(* offset into it.  For the batched instantiations (TConstPtr a pointer to *)
(* pointers) the allocation is the array of per-batch pointers.            *)
(***************************************************************************)
Ptr(b) == [base |-> b, off |-> I64(0)]

\* int64_helpers.hpp: advance a strided pointer by block * stride elements,
\* an array of batch pointers by block entries
adjust_ptr_batch(p, block, stride, batched) ==
    IF batched
    THEN [p EXCEPT !.off = I64Add(p.off, block)]
    ELSE [p EXCEPT !.off = I64Add(p.off, I64MulSmall(block, stride))]

\* The data of batch number `block` as the 32-bit kernels address it:
\* p[block] + offset for an array of batch pointers, p + block * stride +
\* offset for a strided pointer.
load_ptr_batch(p, block, offset, stride, batched) ==
    IF batched
    THEN [base |-> <<p.base, I64Add(p.off, block)>>, off |-> I64(offset)]
    ELSE [base |-> p.base,
          off  |-> I64Add(I64Add(p.off, I64MulSmall(block, stride)), I64(offset))]

(***************************************************************************)
(* rocblas_hpmv_launcher_64                                                *)
(***************************************************************************)
\* Largest number of chunks a run of the model makes
MaxChunks == 3

\* Small values of c_i64_grid_YZ_chunk tried beside the largest 32-bit one
MaxSmallChunk == 2

\* c_i64_grid_YZ_chunk is set in int64_helpers.hpp; the model tries small
\* values and the largest 32-bit-safe one.
ChunkChoices == {I64(c) : c \in 1..MaxSmallChunk} \cup {c_i32_max}

\* batch counts that need at most MaxChunks chunks of size c
BatchChoices(c) ==
    {b \in {I64Add(I64MulSmall(c, k), r) :
                k \in 0..(MaxChunks - 1), r \in {I64(0), I64(1), I64Sub(c, I64(1)), c}} :
        I64Leq(b, I64MulSmall(c, MaxChunks))}

\* n_64 and batch_count_64 as the launcher's callers pass them: never negative
NChoices == {I64(0), I64(1), I64(5), c_i32_max, I64Add(c_i32_max, I64(1))}

StrideChoices == {<<7, 3, 5>>, <<0, 0, 0>>}

IncChoices == {<<1, 1>>, <<-1, 2>>}

HpmvInputs ==
    {[uplo |-> u, n_64 |-> n, alpha |-> "alpha", AP |-> Ptr("AP"), offseta |-> 1,
      strideA |-> st[1], x |-> Ptr("x"), offsetx |-> 2, incx_64 |-> inc[1],
      stridex |-> st[2], beta |-> "beta", y |-> Ptr("y"), offsety |-> 4,
      incy_64 |-> inc[2], stridey |-> st[3], batch_count_64 |-> b, batched |-> bt,
      chunk |-> c] :
        u \in Fills, n \in NChoices, st \in StrideChoices, inc \in IncChoices,
        bt \in BOOLEAN, c \in ChunkChoices, b \in UNION {BatchChoices(cc) : cc \in ChunkChoices}}

\* what the 32-bit launcher may return
LauncherStatuses == {success, internal_error}

hpmv_quick_return(in) == I64IsZero(in.n_64) \/ I64IsZero(in.batch_count_64)

hpmv_n_too_large(in) == I64Less(c_i32_max, in.n_64)

hpmv_loop_cond(in, b_base) == I64Less(b_base, in.batch_count_64)

hpmv_x_ptr(in, b_base) == adjust_ptr_batch(in.x, b_base, in.stridex, in.batched)

\* mutant: y advanced with x's stride
hpmv_y_ptr_stridex(in, b_base) == adjust_ptr_batch(in.y, b_base, in.stridex, in.batched)

hpmv_y_ptr(in, b_base) == adjust_ptr_batch(in.y, b_base, in.stridey, in.batched)

hpmv_A_ptr(in, b_base) == adjust_ptr_batch(in.AP, b_base, in.strideA, in.batched)

\* mutant: the remaining batch count narrowed without std::min
hpmv_batch_count_nomin(in, chunk, b_base) == ToInt32(I64Sub(in.batch_count_64, b_base))

hpmv_batch_count(in, chunk, b_base) ==
    ToInt32(I64Min(I64Sub(in.batch_count_64, b_base), chunk))

\* mutant: the loop steps one batch too far
hpmv_next_b_base_skip(b_base, chunk) == I64Add(I64Add(b_base, chunk), I64(1))

hpmv_next_b_base(b_base, chunk) == I64Add(b_base, chunk)

\* the argument list of the call at lines 63-79; b_base is kept with it
hpmv_call(in, chunk, b_base) ==
    [b_base |-> b_base, uplo |-> in.uplo, n |-> ToInt32(in.n_64), alpha |-> in.alpha,
     A |-> hpmv_A_ptr(in, b_base), shiftA |-> in.offseta, strideA |-> in.strideA,
     x |-> hpmv_x_ptr(in, b_base), offsetx |-> in.offsetx, incx |-> in.incx_64,
     stridex |-> in.stridex, beta |-> in.beta, y |-> hpmv_y_ptr(in, b_base),
     offsety |-> in.offsety, incy |-> in.incy_64, stridey |-> in.stridey,
     batch_count |-> hpmv_batch_count(in, chunk, b_base)]

HpmvIdle ==
    /\ hp_pc = "idle" /\ hp_in = [batched |-> FALSE] /\ hp_chunk = I64(1)
    /\ hp_b_base = I64(0) /\ hp_calls = <<>> /\ hp_ret = "none"

TrtriIdle ==
    /\ tr_pc = "idle" /\ tr_in = [n |-> 0] /\ tr_nb = 0 /\ tr_size = 0
    /\ tr_trace = <<>> /\ tr_impl = "none" /\ tr_exc = [type |-> "none", status |-> "none"]
    /\ tr_ret = "none"

Spr2Idle ==
    /\ sp_pc = "idle" /\ sp_arg = [api |-> "C"] /\ sp_mode = 0 /\ sp_step = 0
    /\ sp_log = <<>>

Spr2TestIdle ==
    /\ st_pc = "idle" /\ st_arg = [api |-> "C"] /\ st_mem = [hA |-> <<>>] /\ st_i = 0
    /\ st_log = <<>>

Blas1Idle ==
    /\ b1_pc = "idle" /\ b1_arg = [api |-> "C"] /\ b1_mode = "none" /\ b1_step = 0
    /\ b1_mem = [none |-> <<>>] /\ b1_log = <<>>

\* the launcher runs alone: the other routines' state does not change
HpmvFrame == UNCHANGED <<tr_vars, sp_vars, st_vars, b1_vars>>

HpmvInit ==
    /\ hp_pc = "entry"
    /\ \E i \in HpmvInputs :
          /\ I64Leq(i.batch_count_64, I64MulSmall(i.chunk, MaxChunks))
          /\ hp_in = [f \in DOMAIN i \ {"chunk"} |-> i[f]]
          /\ hp_chunk = i.chunk
    /\ hp_b_base = I64(0)
    /\ hp_calls = <<>>
    /\ hp_ret = "none"
    /\ TrtriIdle
    /\ Spr2Idle
    /\ Spr2TestIdle
    /\ Blas1Idle

\* lines 48-49
hpmv_QuickReturn ==
    /\ hp_pc = "entry"
    /\ hpmv_quick_return(hp_in)
    /\ hp_ret' = success
    /\ hp_pc' = "done"
    /\ UNCHANGED <<hp_in, hp_chunk, hp_b_base, hp_calls>>
    /\ HpmvFrame

\* lines 51-52
hpmv_InvalidSize ==
    /\ hp_pc = "entry"
    /\ ~hpmv_quick_return(hp_in)
    /\ hpmv_n_too_large(hp_in)
    /\ hp_ret' = invalid_size
    /\ hp_pc' = "done"
    /\ UNCHANGED <<hp_in, hp_chunk, hp_b_base, hp_calls>>
    /\ HpmvFrame

\* line 54, the loop's initialisation
hpmv_EnterLoop ==
    /\ hp_pc = "entry"
    /\ ~hpmv_quick_return(hp_in)
    /\ ~hpmv_n_too_large(hp_in)
    /\ hp_b_base' = I64(0)
    /\ hp_pc' = "loop"
    /\ UNCHANGED <<hp_in, hp_chunk, hp_calls, hp_ret>>
    /\ HpmvFrame

\* lines 54-83, one iteration whose call succeeds
hpmv_ChunkOk ==
    /\ hp_pc = "loop"
    /\ hpmv_loop_cond(hp_in, hp_b_base)
    /\ hp_calls' = Append(hp_calls,
                          [call |-> hpmv_call(hp_in, hp_chunk, hp_b_base), status |-> success])
    /\ hp_b_base' = hpmv_next_b_base(hp_b_base, hp_chunk)
    /\ UNCHANGED <<hp_pc, hp_in, hp_chunk, hp_ret>>
    /\ HpmvFrame

\* lines 54-82, one iteration whose call fails
hpmv_ChunkFail ==
    /\ hp_pc = "loop"
    /\ hpmv_loop_cond(hp_in, hp_b_base)
    /\ \E st \in LauncherStatuses \ {success} :
          /\ hp_calls' = Append(hp_calls,
                                [call |-> hpmv_call(hp_in, hp_chunk, hp_b_base), status |-> st])
          /\ hp_ret' = st
    /\ hp_pc' = "done"
    /\ UNCHANGED <<hp_in, hp_chunk, hp_b_base>>
    /\ HpmvFrame

\* line 54 false, line 84
hpmv_LoopExit ==
    /\ hp_pc = "loop"
    /\ ~hpmv_loop_cond(hp_in, hp_b_base)
    /\ hp_ret' = success
    /\ hp_pc' = "done"
    /\ UNCHANGED <<hp_in, hp_chunk, hp_b_base, hp_calls>>
    /\ HpmvFrame

HpmvNext ==
    \/ hpmv_QuickReturn
    \/ hpmv_InvalidSize
    \/ hpmv_EnterLoop
    \/ hpmv_ChunkOk
    \/ hpmv_ChunkFail
    \/ hpmv_LoopExit

SpecHpmv == HpmvInit /\ [][HpmvNext]_vars

(***************************************************************************)
(* Claims about rocblas_hpmv_launcher_64                                   *)
(***************************************************************************)
HpmvCalls == {hp_calls[k].call : k \in 1..Len(hp_calls)}

HpmvAllSucceeded == \A k \in 1..Len(hp_calls) : hp_calls[k].status = success

\* the precondition C1 states: batch_count_64 > 0 and 0 < n_64 <= c_i32_max
HpmvC1Pre ==
    /\ hp_pc # "idle"
    /\ I64Less(I64(0), hp_in.batch_count_64)
    /\ I64Less(I64(0), hp_in.n_64)
    /\ I64Leq(hp_in.n_64, c_i32_max)

\* C1: for batch_count_64 > 0 and 0 < n_64 <= c_i32_max, every call made to the
\* 32-bit launcher receives a batch_count of at least 1 and at most
\* c_i64_grid_YZ_chunk, and the int32_t it receives has the value of
\* min(batch_count_64 - b_base, c_i64_grid_YZ_chunk) before the narrowing.
C1_BatchCountInRange ==
    HpmvC1Pre =>
        \A c \in HpmvCalls :
            /\ c.batch_count >= 1
            /\ I64Leq(FromInt32(c.batch_count), hp_chunk)
            /\ FromInt32(c.batch_count)
                   = I64Min(I64Sub(hp_in.batch_count_64, c.b_base), hp_chunk)

\* a run of several chunks whose first remaining count does not fit 32 bits
C1_Witness ==
    /\ HpmvC1Pre
    /\ hp_pc = "done"
    /\ Len(hp_calls) >= 2
    /\ I64Less(c_i32_max, hp_in.batch_count_64)

RECURSIVE HpmvSumCounts(_)
HpmvSumCounts(calls) ==
    IF calls = <<>> THEN I64(0)
    ELSE I64Add(FromInt32(calls[1].call.batch_count), HpmvSumCounts(Tail(calls)))

\* the chunks are issued in increasing order of b_base, start at batch 0, are
\* contiguous and disjoint, and their batch counts sum to batch_count_64
HpmvChunksTile ==
    /\ Len(hp_calls) > 0 => hp_calls[1].call.b_base = I64(0)
    /\ \A k \in 1..Len(hp_calls) : hp_calls[k].call.batch_count >= 1
    /\ \A k \in 1..(Len(hp_calls) - 1) :
          /\ I64Less(hp_calls[k].call.b_base, hp_calls[k + 1].call.b_base)
          /\ hp_calls[k + 1].call.b_base
                 = I64Add(hp_calls[k].call.b_base, FromInt32(hp_calls[k].call.batch_count))
    /\ HpmvSumCounts(hp_calls) = hp_in.batch_count_64

\* C2 as stated: whenever every 32-bit launcher call returned success, the
\* chunks launched tile [0, batch_count_64) exactly.
C2_Original == (hp_pc = "done" /\ HpmvAllSucceeded) => HpmvChunksTile

\* C2 amended: when n_64 is non-zero and at most c_i32_max and every 32-bit
\* launcher call returned success, the chunks launched are issued in increasing
\* order of starting batch index, are pairwise disjoint and contiguous, start at
\* batch 0 and their batch counts sum to exactly batch_count_64.
C2_ChunksTileWhenLoopRuns ==
    (/\ hp_pc = "done"
     /\ HpmvAllSucceeded
     /\ ~I64IsZero(hp_in.n_64)
     /\ I64Leq(hp_in.n_64, c_i32_max)) => HpmvChunksTile

\* a finished run of three successful chunks, the last one partial
C2_Witness ==
    /\ hp_pc = "done"
    /\ HpmvAllSucceeded
    /\ ~I64IsZero(hp_in.n_64)
    /\ I64Leq(hp_in.n_64, c_i32_max)
    /\ Len(hp_calls) >= 3
    /\ I64Less(FromInt32(hp_calls[Len(hp_calls)].call.batch_count), hp_chunk)

\* local batch numbers of a call at which the addresses are compared
HpmvLocalBatches(c) == {0, c.batch_count - 1} \cap (0..(c.batch_count - 1))

\* C3: the call for the chunk starting at b_base receives AP, x and y advanced
\* by b_base batches (batch i of the call is batch b_base + i of the 64-bit
\* call, addressed with strideA, stridex and stridey), and uplo, n, alpha, beta,
\* the offsets, the increments and the three strides unchanged.
C3_ChunkArguments ==
    hp_pc # "idle" =>
    \A c \in HpmvCalls :
        /\ \A i \in HpmvLocalBatches(c) :
              /\ load_ptr_batch(c.A, I64(i), c.shiftA, c.strideA, hp_in.batched)
                   = load_ptr_batch(hp_in.AP, I64Add(c.b_base, I64(i)), hp_in.offseta,
                                    hp_in.strideA, hp_in.batched)
              /\ load_ptr_batch(c.x, I64(i), c.offsetx, c.stridex, hp_in.batched)
                   = load_ptr_batch(hp_in.x, I64Add(c.b_base, I64(i)), hp_in.offsetx,
                                    hp_in.stridex, hp_in.batched)
              /\ load_ptr_batch(c.y, I64(i), c.offsety, c.stridey, hp_in.batched)
                   = load_ptr_batch(hp_in.y, I64Add(c.b_base, I64(i)), hp_in.offsety,
                                    hp_in.stridey, hp_in.batched)
        /\ c.uplo = hp_in.uplo
        /\ FromInt32(c.n) = hp_in.n_64
        /\ c.alpha = hp_in.alpha
        /\ c.beta = hp_in.beta
        /\ c.shiftA = hp_in.offseta
        /\ c.offsetx = hp_in.offsetx
        /\ c.offsety = hp_in.offsety
        /\ c.incx = hp_in.incx_64
        /\ c.incy = hp_in.incy_64
        /\ c.strideA = hp_in.strideA
        /\ c.stridex = hp_in.stridex
        /\ c.stridey = hp_in.stridey

\* a later chunk of a strided call with distinct non-zero strides
C3_Witness ==
    /\ hp_pc # "idle"
    /\ ~hp_in.batched
    /\ hp_in.stridex # hp_in.stridey
    /\ \E c \in HpmvCalls : c.b_base # I64(0) /\ c.batch_count > 1

(***************************************************************************)
(* rocblas_trtri_strided_batched_impl and the C entry points               *)
(***************************************************************************)
\* constexpr rocblas_int NB of the four entry points
NB == 16

\* Largest element count rocblas_internal_trtri_temp_size returns in the model
MaxTemp == 2

Types == {"float", "double", "rocblas_float_complex", "rocblas_double_complex"}

\* sizeof(T)
SizeOf(T) ==
    CASE T = "float" -> 4
      [] T = "double" -> 8
      [] T = "rocblas_float_complex" -> 8
      [] T = "rocblas_double_complex" -> 16

\* rocblas_trtri_name<T>
rocblas_trtri_name(T) ==
    CASE T = "float" -> "rocblas_strtri_strided_batched"
      [] T = "double" -> "rocblas_dtrtri_strided_batched"
      [] T = "rocblas_float_complex" -> "rocblas_ctrtri_strided_batched"
      [] T = "rocblas_double_complex" -> "rocblas_ztrtri_strided_batched"

LayerBits == {"rocblas_layer_mode_log_trace", "rocblas_layer_mode_log_profile"}

\* a rocblas_handle: null, or a handle in or out of device-memory-size-query
\* mode with its layer_mode bits
Handles ==
    {[null |-> TRUE, query |-> FALSE, layer_mode |-> {}]}
        \cup {[null |-> FALSE, query |-> q, layer_mode |-> l] :
                  q \in BOOLEAN, l \in SUBSET LayerBits}

\* uplo, diag, A, lda, invA and ldinvA taken together: all valid, an invalid
\* uplo, a leading dimension below n, or a null matrix pointer
RestChoices == {"valid", "bad_uplo", "bad_ld", "null_ptr"}

TrtriNChoices == {-1, 0, 1, NB, NB + 1, 2 * NB + 8}

TrtriBatchChoices == {-1, 0, 1, 3}

TrtriInputs ==
    [T : Types, handle : Handles, n : TrtriNChoices, batch_count : TrtriBatchChoices,
     rest : RestChoices]

\* what rocblas_trtri_small and rocblas_trtri_large may return
KernelStatuses == {success, internal_error}

NoExc == [type |-> "none", status |-> "none"]

\* what a callee may throw: std::bad_alloc, a rocblas_status, anything else
Exceptions ==
    {[type |-> "std::bad_alloc", status |-> "none"],
     [type |-> "rocblas_status", status |-> invalid_size],
     [type |-> "other", status |-> "none"]}

\* utility.hpp: the status of the exception in flight
exception_to_rocblas_status(e) ==
    CASE e.type = "rocblas_status" -> e.status
      [] e.type = "std::bad_alloc" -> memory_error
      [] OTHER -> internal_error

\* rocblas_trtri.hpp: the argument check, by the order of its tests
rocblas_trtri_arg_check(in) ==
    IF in.rest = "bad_uplo" THEN invalid_value
    ELSE IF in.n < 0 \/ in.rest = "bad_ld" \/ in.batch_count < 0 THEN invalid_size
    ELSE IF in.n = 0 \/ in.batch_count = 0 THEN success
    ELSE IF in.rest = "null_ptr" THEN invalid_pointer
    ELSE continue

Event(op, arg, res) == [op |-> op, arg |-> arg, res |-> res]

\* mutant: a null handle reported as a null pointer
trtri_null_handle_status_pointer == invalid_pointer

\* line 55
trtri_null_handle_status == invalid_handle

\* line 58, given the result t of rocblas_internal_trtri_temp_size
trtri_size(t, T) == t * SizeOf(T)

\* mutant: n == NB taken to need scratch memory
trtri_query_unchanged_lt(in) == in.n < NB \/ in.batch_count = 0

\* line 61
trtri_query_unchanged(in) == in.n <= NB \/ in.batch_count = 0

\* mutant: a successful argument check does not return
trtri_arg_check_stops_on_error(st) == st \notin {continue, success}

\* line 103
trtri_arg_check_stops(st) == st # continue

\* mutant: n == NB sent to the large variant
trtri_use_small_lt(in) == in.n < NB

\* line 107
trtri_use_small(in) == in.n <= NB

\* mutant: catch(const std::exception&) in place of catch(...)
trtri_entry_catches_std(e) == e.type = "std::bad_alloc"

\* lines 183, 205, 227, 249: catch(...)
trtri_entry_catches(e) == TRUE

\* the logging calls of lines 67-99 for the bits in `bits`, in order
trtri_log_events(in, bits) ==
    (IF "rocblas_layer_mode_log_trace" \in bits
     THEN <<Event("log_trace", rocblas_trtri_name(in.T), "void")>> ELSE <<>>)
    \o (IF "rocblas_layer_mode_log_profile" \in bits
        THEN <<Event("log_profile", rocblas_trtri_name(in.T), "void")>> ELSE <<>>)

\* the arguments of the kernel launch at lines 109-124 and 133-149
trtri_kernel_args(in, w) == [n |-> in.n, batch_count |-> in.batch_count, w_C_tmp |-> w]

TrtriFrame == UNCHANGED <<hp_vars, sp_vars, st_vars, b1_vars>>

TrtriInit ==
    /\ tr_pc = "entry"
    /\ tr_in \in TrtriInputs
    /\ tr_nb = 0
    /\ tr_size = 0
    /\ tr_trace = <<>>
    /\ tr_impl = "none"
    /\ tr_exc = NoExc
    /\ tr_ret = "none"
    /\ HpmvIdle
    /\ Spr2Idle
    /\ Spr2TestIdle
    /\ Blas1Idle

\* lines 177-181: the entry point instantiates the implementation with NB
trtri_Entry ==
    /\ tr_pc = "entry"
    /\ tr_nb' = NB
    /\ tr_pc' = "impl"
    /\ UNCHANGED <<tr_in, tr_size, tr_trace, tr_impl, tr_exc, tr_ret>>
    /\ TrtriFrame

\* lines 54-55
trtri_NullHandle ==
    /\ tr_pc = "impl"
    /\ tr_in.handle.null
    /\ tr_impl' = trtri_null_handle_status
    /\ tr_pc' = "returned"
    /\ UNCHANGED <<tr_in, tr_nb, tr_size, tr_trace, tr_exc, tr_ret>>
    /\ TrtriFrame

\* line 58
trtri_TempSize ==
    /\ tr_pc = "impl"
    /\ ~tr_in.handle.null
    /\ \E t \in 0..MaxTemp :
          /\ tr_trace' = Append(tr_trace,
                 Event("rocblas_internal_trtri_temp_size", <<tr_nb, tr_in.n, tr_in.batch_count>>, t))
          /\ tr_size' = trtri_size(t, tr_in.T)
    /\ tr_pc' = "query"
    /\ UNCHANGED <<tr_in, tr_nb, tr_impl, tr_exc, tr_ret>>
    /\ TrtriFrame

\* lines 59-62
trtri_QueryUnchanged ==
    /\ tr_pc = "query"
    /\ tr_in.handle.query
    /\ trtri_query_unchanged(tr_in)
    /\ tr_impl' = size_unchanged
    /\ tr_pc' = "returned"
    /\ UNCHANGED <<tr_in, tr_nb, tr_size, tr_trace, tr_exc, tr_ret>>
    /\ TrtriFrame

\* lines 59-63
trtri_QuerySetOptimal ==
    /\ tr_pc = "query"
    /\ tr_in.handle.query
    /\ ~trtri_query_unchanged(tr_in)
    /\ \E r \in {size_unchanged, size_increased} :
          /\ tr_trace' = Append(tr_trace, Event("set_optimal_device_memory_size", tr_size, r))
          /\ tr_impl' = r
    /\ tr_pc' = "returned"
    /\ UNCHANGED <<tr_in, tr_nb, tr_size, tr_exc, tr_ret>>
    /\ TrtriFrame

\* lines 59, 66-99
trtri_Log ==
    /\ tr_pc = "query"
    /\ ~tr_in.handle.query
    /\ tr_trace' = tr_trace \o trtri_log_events(tr_in, tr_in.handle.layer_mode)
    /\ tr_pc' = "arg_check"
    /\ UNCHANGED <<tr_in, tr_nb, tr_size, tr_impl, tr_exc, tr_ret>>
    /\ TrtriFrame

\* lines 66-99, log_trace or log_profile throws
trtri_LogThrows ==
    /\ tr_pc = "query"
    /\ ~tr_in.handle.query
    /\ \E last \in tr_in.handle.layer_mode, e \in Exceptions :
          /\ tr_trace' = tr_trace \o trtri_log_events(tr_in,
                 IF last = "rocblas_layer_mode_log_trace" THEN {last}
                 ELSE tr_in.handle.layer_mode)
          /\ tr_exc' = e
    /\ tr_pc' = "thrown"
    /\ UNCHANGED <<tr_in, tr_nb, tr_size, tr_impl, tr_ret>>
    /\ TrtriFrame

\* lines 101-104
trtri_ArgCheck ==
    /\ tr_pc = "arg_check"
    /\ LET st == rocblas_trtri_arg_check(tr_in) IN
          /\ tr_trace' = Append(tr_trace,
                 Event("rocblas_trtri_arg_check", <<tr_in.n, tr_in.batch_count, tr_in.rest>>, st))
          /\ IF trtri_arg_check_stops(st)
             THEN tr_impl' = st /\ tr_pc' = "returned"
             ELSE tr_impl' = tr_impl /\ tr_pc' = "dispatch"
    /\ UNCHANGED <<tr_in, tr_nb, tr_size, tr_exc, tr_ret>>
    /\ TrtriFrame

\* lines 107-125, 152
trtri_Small ==
    /\ tr_pc = "dispatch"
    /\ trtri_use_small(tr_in)
    /\ \E r \in KernelStatuses :
          /\ tr_trace' = Append(tr_trace,
                 Event("rocblas_trtri_small", trtri_kernel_args(tr_in, -1), r))
          /\ tr_impl' = r
    /\ tr_pc' = "returned"
    /\ UNCHANGED <<tr_in, tr_nb, tr_size, tr_exc, tr_ret>>
    /\ TrtriFrame

\* lines 126-131: device_malloc gives no memory (a request for zero bytes is
\* taken never to fail)
trtri_AllocFail ==
    /\ tr_pc = "dispatch"
    /\ ~trtri_use_small(tr_in)
    /\ tr_size > 0
    /\ tr_trace' = Append(tr_trace, Event("device_malloc", tr_size, FALSE))
    /\ tr_impl' = memory_error
    /\ tr_pc' = "returned"
    /\ UNCHANGED <<tr_in, tr_nb, tr_size, tr_exc, tr_ret>>
    /\ TrtriFrame

\* lines 126-152: the buffer of tr_size bytes is passed as w_C_tmp
trtri_Large ==
    /\ tr_pc = "dispatch"
    /\ ~trtri_use_small(tr_in)
    /\ \E r \in KernelStatuses :
          /\ tr_trace' = tr_trace \o
                 <<Event("device_malloc", tr_size, TRUE),
                   Event("rocblas_trtri_large", trtri_kernel_args(tr_in, tr_size), r)>>
          /\ tr_impl' = r
    /\ tr_pc' = "returned"
    /\ UNCHANGED <<tr_in, tr_nb, tr_size, tr_exc, tr_ret>>
    /\ TrtriFrame

\* lines 107-150: the kernel launch (or, for n > NB, device_malloc) throws
trtri_DispatchThrows ==
    /\ tr_pc = "dispatch"
    /\ \E e \in Exceptions :
          /\ tr_trace' = Append(tr_trace,
                 IF trtri_use_small(tr_in)
                 THEN Event("rocblas_trtri_small", trtri_kernel_args(tr_in, -1), "threw")
                 ELSE Event("device_malloc", tr_size, FALSE))
          /\ tr_exc' = e
    /\ tr_pc' = "thrown"
    /\ UNCHANGED <<tr_in, tr_nb, tr_size, tr_impl, tr_ret>>
    /\ TrtriFrame

\* lines 180-181 (202, 224, 246): return the implementation's status
trtri_Return ==
    /\ tr_pc = "returned"
    /\ tr_ret' = tr_impl
    /\ tr_pc' = "done"
    /\ UNCHANGED <<tr_in, tr_nb, tr_size, tr_trace, tr_impl, tr_exc>>
    /\ TrtriFrame

\* lines 183-186 (205-208, 227-230, 249-252): the function-try-block's handler;
\* an exception it does not catch leaves the entry point
trtri_Catch ==
    /\ tr_pc = "thrown"
    /\ IF trtri_entry_catches(tr_exc)
       THEN tr_ret' = exception_to_rocblas_status(tr_exc) /\ tr_pc' = "done"
       ELSE tr_ret' = tr_ret /\ tr_pc' = "escaped"
    /\ UNCHANGED <<tr_in, tr_nb, tr_size, tr_trace, tr_impl, tr_exc>>
    /\ TrtriFrame

TrtriNext ==
    \/ trtri_Entry
    \/ trtri_NullHandle
    \/ trtri_TempSize
    \/ trtri_QueryUnchanged
    \/ trtri_QuerySetOptimal
    \/ trtri_Log
    \/ trtri_LogThrows
    \/ trtri_ArgCheck
    \/ trtri_Small
    \/ trtri_AllocFail
    \/ trtri_Large
    \/ trtri_DispatchThrows
    \/ trtri_Return
    \/ trtri_Catch

SpecTrtri == TrtriInit /\ [][TrtriNext]_vars

(***************************************************************************)
(* Claims about rocblas_trtri_strided_batched                              *)
(***************************************************************************)
TrtriRunning == tr_pc # "idle"

\* the positions of the calls to `op` in the trace
TrtriCallsOf(op) == {k \in 1..Len(tr_trace) : tr_trace[k].op = op}

TrtriOps == {tr_trace[k].op : k \in 1..Len(tr_trace)}

KernelOps == {"rocblas_trtri_small", "rocblas_trtri_large"}

LogOps == {"log_trace", "log_profile"}

\* C4: with a null handle the implementation returns
\* rocblas_status_invalid_handle whatever the other arguments are, having made
\* no call at all (no size query, logging, argument check, allocation or launch).
C4_NullHandle ==
    (TrtriRunning /\ tr_in.handle.null) =>
        /\ tr_trace = <<>>
        /\ tr_size = 0
        /\ tr_exc = NoExc
        /\ tr_pc \in {"returned", "done"} => tr_impl = invalid_handle
        /\ tr_pc = "done" => tr_ret = invalid_handle
        /\ tr_pc \in {"entry", "impl", "returned", "done"}

\* a null handle with an invalid size and an invalid uplo
C4_Witness ==
    /\ TrtriRunning
    /\ tr_in.handle.null
    /\ tr_in.n < 0
    /\ tr_in.rest = "bad_uplo"
    /\ tr_pc = "done"

\* C5: no exception leaves an entry point; when the implementation threw, the
\* entry point returns the status of exception_to_rocblas_status(), and when it
\* did not, the implementation's status unchanged; the implementation runs
\* with NB = 16.
C5_EntryPoint ==
    TrtriRunning =>
        /\ tr_pc # "escaped"
        /\ tr_pc # "entry" => tr_nb = 16
        /\ tr_pc = "done" =>
              /\ tr_ret # "none"
              /\ tr_exc # NoExc => tr_ret = exception_to_rocblas_status(tr_exc)
              /\ tr_exc = NoExc => tr_ret = tr_impl

\* the kernel launch threw something that is no std::exception, and the entry
\* point has returned
C5_Witness ==
    /\ tr_pc = "done"
    /\ tr_exc.type = "other"
    /\ "rocblas_trtri_small" \in TrtriOps
    /\ tr_ret = internal_error

\* C6: in device-memory-size-query mode the implementation returns
\* rocblas_status_size_unchanged if n <= NB or batch_count == 0, and otherwise
\* the result of set_optimal_device_memory_size(temp_size(n, batch_count) *
\* sizeof(T)); it never logs, checks the arguments, allocates or launches.
C6_QueryMode ==
    (TrtriRunning /\ ~tr_in.handle.null /\ tr_in.handle.query) =>
        /\ TrtriOps \cap (LogOps \cup KernelOps
                            \cup {"rocblas_trtri_arg_check", "device_malloc"}) = {}
        /\ tr_impl # "none" =>
              IF tr_in.n <= NB \/ tr_in.batch_count = 0
              THEN /\ tr_impl = size_unchanged
                   /\ TrtriCallsOf("set_optimal_device_memory_size") = {}
              ELSE /\ Len(tr_trace) = 2
                   /\ tr_trace[1].op = "rocblas_internal_trtri_temp_size"
                   /\ tr_trace[1].arg = <<NB, tr_in.n, tr_in.batch_count>>
                   /\ tr_trace[2].op = "set_optimal_device_memory_size"
                   /\ tr_trace[2].arg = tr_trace[1].res * SizeOf(tr_in.T)
                   /\ tr_impl = tr_trace[2].res

\* a size query with n > NB, a non-zero scratch size and invalid arguments
C6_Witness ==
    /\ TrtriRunning
    /\ ~tr_in.handle.null
    /\ tr_in.handle.query
    /\ tr_in.handle.layer_mode # {}
    /\ tr_in.n > NB
    /\ tr_in.batch_count < 0
    /\ tr_pc = "done"
    /\ tr_size > 0
    /\ tr_ret = size_increased

\* the argument check has returned rocblas_status_continue outside query mode,
\* and the implementation has returned
TrtriContinued ==
    /\ TrtriRunning
    /\ tr_impl # "none"
    /\ \E k \in TrtriCallsOf("rocblas_trtri_arg_check") : tr_trace[k].res = continue

\* the last call of the trace is to `op`, and the implementation returned its status
TrtriLastIs(op) ==
    /\ tr_trace[Len(tr_trace)].op = op
    /\ tr_impl = tr_trace[Len(tr_trace)].res

\* C7 as stated: once the argument check returned rocblas_status_continue,
\* exactly one kernel variant is launched, rocblas_trtri_small without scratch
\* allocation when n <= NB and rocblas_trtri_large with a buffer from
\* device_malloc when n > NB, and its status is returned.
C7_Original ==
    TrtriContinued =>
        /\ Cardinality(TrtriCallsOf("rocblas_trtri_small")
                         \cup TrtriCallsOf("rocblas_trtri_large")) = 1
        /\ IF tr_in.n <= NB
           THEN /\ TrtriLastIs("rocblas_trtri_small")
                /\ TrtriCallsOf("device_malloc") = {}
           ELSE /\ TrtriLastIs("rocblas_trtri_large")
                /\ tr_trace[Len(tr_trace) - 1].op = "device_malloc"
                /\ tr_trace[Len(tr_trace) - 1].res = TRUE

\* C7 amended: once the argument check returned rocblas_status_continue, n <= NB
\* launches rocblas_trtri_small alone, without scratch allocation, and returns
\* its status; n > NB asks device_malloc for the scratch buffer once and, if
\* that fails, returns rocblas_status_memory_error without any launch, and
\* otherwise launches rocblas_trtri_large alone with that buffer and returns
\* its status.
C7_Dispatch ==
    TrtriContinued =>
        IF tr_in.n <= NB
        THEN /\ TrtriLastIs("rocblas_trtri_small")
             /\ Cardinality(TrtriCallsOf("rocblas_trtri_small")) = 1
             /\ TrtriCallsOf("rocblas_trtri_large") = {}
             /\ TrtriCallsOf("device_malloc") = {}
        ELSE /\ TrtriCallsOf("rocblas_trtri_small") = {}
             /\ Cardinality(TrtriCallsOf("device_malloc")) = 1
             /\ \A k \in TrtriCallsOf("device_malloc") : tr_trace[k].arg = tr_size
             /\ IF \E k \in TrtriCallsOf("device_malloc") : tr_trace[k].res = FALSE
                THEN /\ tr_impl = memory_error
                     /\ TrtriCallsOf("rocblas_trtri_large") = {}
                ELSE /\ TrtriLastIs("rocblas_trtri_large")
                     /\ Cardinality(TrtriCallsOf("rocblas_trtri_large")) = 1
                     /\ tr_trace[Len(tr_trace)].arg.w_C_tmp = tr_size
                     /\ tr_trace[Len(tr_trace) - 1].op = "device_malloc"

\* n == NB went to the small variant, whose failure status was returned
C7_Witness ==
    /\ TrtriContinued
    /\ tr_in.n = NB
    /\ tr_pc = "done"
    /\ "rocblas_trtri_small" \in TrtriOps
    /\ tr_ret = internal_error

\* C8: whenever rocblas_trtri_arg_check returns a status other than
\* rocblas_status_continue, that status is returned and neither device_malloc
\* nor a kernel variant is called; every allocation and launch comes after the
\* argument check.
C8_ArgCheckFirst ==
    TrtriRunning =>
        /\ \A k \in 1..Len(tr_trace) :
              tr_trace[k].op \in KernelOps \cup {"device_malloc"} =>
                  \E j \in 1..(k - 1) :
                      /\ tr_trace[j].op = "rocblas_trtri_arg_check"
                      /\ tr_trace[j].res = continue
        /\ \A k \in TrtriCallsOf("rocblas_trtri_arg_check") :
              tr_trace[k].res # continue =>
                  /\ k = Len(tr_trace)
                  /\ tr_pc \in {"returned", "done"}
                  /\ tr_impl = tr_trace[k].res
                  /\ tr_pc = "done" => tr_ret = tr_trace[k].res

\* the argument check returned success for n == 0 and that was returned
C8_Witness ==
    /\ TrtriRunning
    /\ tr_pc = "done"
    /\ tr_in.n = 0
    /\ tr_ret = success
    /\ \E k \in TrtriCallsOf("rocblas_trtri_arg_check") : tr_trace[k].res = success

(***************************************************************************)
(* testing_spr2_batched_bad_arg                                            *)
(***************************************************************************)
\* int64_t N = 100
spr2ba_N == 100

\* int64_t batch_count = 2
spr2ba_batch_count == 2

PointerModes == <<"rocblas_pointer_mode_host", "rocblas_pointer_mode_device">>

Apis == {"C", "FORTRAN", "C_64", "FORTRAN_64"}

\* a pointer argument: null, or memory of the host or the device; a scalar
\* pointer carries the value it points to
nullptr == [null |-> TRUE, mem |-> "none", val |-> 0]

HostScalar(v) == [null |-> FALSE, mem |-> "host", val |-> v]

DeviceScalar(v) == [null |-> FALSE, mem |-> "device", val |-> v]

DeviceBuffer == [null |-> FALSE, mem |-> "device", val |-> 0]

\* The argument check and quick returns of rocblas_spr2_batched, by the order
\* of their tests; the set of statuses the call may return.  With a device
\* pointer to a non-zero alpha and a null x, y or AP the kernel reads through
\* a null pointer: the behaviour is undefined, any status may come back.
rocblas_spr2_batched(mode, a) ==
    IF a.handle.null THEN {invalid_handle}
    ELSE IF a.uplo \notin Fills THEN {invalid_value}
    ELSE IF a.N < 0 \/ a.incx = 0 \/ a.incy = 0 \/ a.batch_count < 0 THEN {invalid_size}
    ELSE IF a.N = 0 \/ a.batch_count = 0 THEN {success}
    ELSE IF a.alpha.null THEN {invalid_pointer}
    ELSE IF mode = "rocblas_pointer_mode_host"
    THEN IF a.alpha.val = 0 THEN {success}
         ELSE IF a.x.null \/ a.y.null \/ a.AP.null THEN {invalid_pointer}
         ELSE {success}
    ELSE IF a.alpha.val = 0 THEN {success}
         ELSE IF a.x.null \/ a.y.null \/ a.AP.null
         THEN {success, invalid_handle, invalid_value, invalid_size, invalid_pointer,
               memory_error, internal_error}
         ELSE {success}

\* lines 30-34 and DAPI_EXPECT / DAPI_CHECK: the function the call goes to
spr2ba_fn(arg) ==
    IF arg.api \in {"C_64", "FORTRAN_64"} THEN "rocblas_spr2_batched_64"
    ELSE "rocblas_spr2_batched"

\* lines 38-39: the rocblas_local_handle of one pass of the loop
spr2ba_handle == [null |-> FALSE]

\* lines 49-60: alpha, on the host or copied to the device
spr2ba_alpha(mode) ==
    IF mode = "rocblas_pointer_mode_device" THEN DeviceScalar(1) ELSE HostScalar(1)

\* mutant: the device copy of zero is never made, zero_d is passed as allocated
spr2ba_zero_uncopied(mode) ==
    IF mode = "rocblas_pointer_mode_device" THEN DeviceScalar(1) ELSE HostScalar(0)

\* lines 49-60: zero, on the host or copied to the device
spr2ba_zero(mode) ==
    IF mode = "rocblas_pointer_mode_device" THEN DeviceScalar(0) ELSE HostScalar(0)

Spr2Args(handle, uplo, N, alpha, x, incx, y, incy, AP, batch_count) ==
    [handle |-> handle, uplo |-> uplo, N |-> N, alpha |-> alpha, x |-> x, incx |-> incx,
     y |-> y, incy |-> incy, AP |-> AP, batch_count |-> batch_count]

Expect(line, status, args) == [line |-> line, expect |-> status, args |-> args]

\* mutant: the rocblas_fill_full call passes the valid uplo, and the null
\* alpha, x, y and AP calls pass the buffers
spr2ba_error_calls_valid(mode) ==
    LET h == spr2ba_handle
        u == "rocblas_fill_upper"
        al == spr2ba_alpha(mode)
        d == DeviceBuffer
    IN  <<Expect(72, invalid_handle,
                 Spr2Args(nullptr, u, spr2ba_N, al, d, 1, d, 1, d, spr2ba_batch_count)),
          Expect(76, invalid_value,
                 Spr2Args(h, u, spr2ba_N, al, d, 1, d, 1, d, spr2ba_batch_count)),
          Expect(80, invalid_pointer,
                 Spr2Args(h, u, spr2ba_N, al, d, 1, d, 1, d, spr2ba_batch_count))>>

\* lines 72-98: the calls expected to fail
spr2ba_error_calls(mode) ==
    LET h == spr2ba_handle
        u == "rocblas_fill_upper"
        al == spr2ba_alpha(mode)
        d == DeviceBuffer
    IN  <<Expect(72, invalid_handle,
                 Spr2Args(nullptr, u, spr2ba_N, al, d, 1, d, 1, d, spr2ba_batch_count)),
          Expect(76, invalid_value,
                 Spr2Args(h, "rocblas_fill_full", spr2ba_N, al, d, 1, d, 1, d,
                          spr2ba_batch_count)),
          Expect(80, invalid_pointer,
                 Spr2Args(h, u, spr2ba_N, nullptr, d, 1, d, 1, d, spr2ba_batch_count))>>
        \o (IF mode = "rocblas_pointer_mode_host"
            THEN <<Expect(87, invalid_pointer,
                          Spr2Args(h, u, spr2ba_N, al, nullptr, 1, d, 1, d,
                                   spr2ba_batch_count)),
                   Expect(91, invalid_pointer,
                          Spr2Args(h, u, spr2ba_N, al, d, 1, nullptr, 1, d,
                                   spr2ba_batch_count)),
                   Expect(95, invalid_pointer,
                          Spr2Args(h, u, spr2ba_N, al, d, 1, d, 1, nullptr,
                                   spr2ba_batch_count))>>
            ELSE <<>>)

\* lines 100-110: the calls expected to succeed (DAPI_CHECK)
spr2ba_quick_calls(mode) ==
    LET h == spr2ba_handle
        u == "rocblas_fill_upper"
    IN  <<Expect(101, success,
                 Spr2Args(h, u, 0, nullptr, nullptr, 1, nullptr, 1, nullptr,
                          spr2ba_batch_count)),
          Expect(105, success,
                 Spr2Args(h, u, spr2ba_N, nullptr, nullptr, 1, nullptr, 1, nullptr, 0)),
          Expect(109, success,
                 Spr2Args(h, u, spr2ba_N, spr2ba_zero(mode), nullptr, 1, nullptr, 1, nullptr,
                          spr2ba_batch_count))>>

\* lines 72-110, in order
spr2ba_calls(mode) == spr2ba_error_calls(mode) \o spr2ba_quick_calls(mode)

Spr2Frame == UNCHANGED <<hp_vars, tr_vars, st_vars, b1_vars>>

Spr2BadArgInit ==
    /\ sp_pc = "mode"
    /\ sp_arg \in [T : {"float", "double"}, api : Apis]
    /\ sp_mode = 1
    /\ sp_step = 0
    /\ sp_log = <<>>
    /\ HpmvIdle
    /\ TrtriIdle
    /\ Spr2TestIdle
    /\ Blas1Idle

\* lines 36-70: one pass of the loop begins: handle, pointer mode, scalars, buffers
spr2ba_BeginMode ==
    /\ sp_pc = "mode"
    /\ sp_mode <= Len(PointerModes)
    /\ sp_step' = 1
    /\ sp_pc' = "calls"
    /\ UNCHANGED <<sp_arg, sp_mode, sp_log>>
    /\ Spr2Frame

\* one DAPI_EXPECT or DAPI_CHECK of lines 72-110
spr2ba_Call ==
    /\ sp_pc = "calls"
    /\ sp_step <= Len(spr2ba_calls(PointerModes[sp_mode]))
    /\ LET mode == PointerModes[sp_mode]
           c == spr2ba_calls(mode)[sp_step]
       IN  \E got \in rocblas_spr2_batched(mode, c.args) :
               sp_log' = Append(sp_log,
                   [mode |-> mode, fn |-> spr2ba_fn(sp_arg), line |-> c.line,
                    args |-> c.args, expect |-> c.expect, got |-> got])
    /\ sp_step' = sp_step + 1
    /\ UNCHANGED <<sp_pc, sp_arg, sp_mode>>
    /\ Spr2Frame

\* line 111: the pass ends
spr2ba_EndMode ==
    /\ sp_pc = "calls"
    /\ sp_step > Len(spr2ba_calls(PointerModes[sp_mode]))
    /\ sp_mode' = sp_mode + 1
    /\ sp_pc' = "mode"
    /\ UNCHANGED <<sp_arg, sp_step, sp_log>>
    /\ Spr2Frame

\* line 112: the loop is over
spr2ba_Done ==
    /\ sp_pc = "mode"
    /\ sp_mode > Len(PointerModes)
    /\ sp_pc' = "done"
    /\ UNCHANGED <<sp_arg, sp_mode, sp_step, sp_log>>
    /\ Spr2Frame

Spr2BadArgNext ==
    \/ spr2ba_BeginMode
    \/ spr2ba_Call
    \/ spr2ba_EndMode
    \/ spr2ba_Done

SpecSpr2BadArg == Spr2BadArgInit /\ [][Spr2BadArgNext]_vars

(***************************************************************************)
(* Claims about rocblas_spr2_batched, as testing_spr2_batched_bad_arg      *)
(* calls it                                                                *)
(***************************************************************************)
Spr2Logged == 1..Len(sp_log)

Spr2SizesPositive(a) == a.N > 0 /\ a.batch_count > 0

Spr2NullHandleCase(e) == Spr2SizesPositive(e.args) /\ e.args.handle.null

Spr2FillFullCase(e) ==
    /\ Spr2SizesPositive(e.args)
    /\ ~e.args.handle.null
    /\ e.args.uplo = "rocblas_fill_full"

Spr2NullAlphaCase(e) ==
    /\ Spr2SizesPositive(e.args)
    /\ ~e.args.handle.null
    /\ e.args.uplo \in Fills
    /\ e.args.alpha.null

Spr2NullVectorCase(e) ==
    /\ Spr2SizesPositive(e.args)
    /\ e.mode = "rocblas_pointer_mode_host"
    /\ ~e.args.handle.null
    /\ e.args.uplo \in Fills
    /\ ~e.args.alpha.null
    /\ e.args.alpha.val # 0
    /\ e.args.x.null \/ e.args.y.null \/ e.args.AP.null

Spr2VectorsNull(a) == a.x.null /\ a.y.null /\ a.AP.null

Spr2ValidCall(e) ==
    /\ ~e.args.handle.null
    /\ e.args.uplo \in Fills
    /\ e.args.incx # 0
    /\ e.args.incy # 0

Spr2ZeroNCase(e) ==
    /\ Spr2ValidCall(e)
    /\ e.args.N = 0
    /\ e.args.batch_count >= 0
    /\ e.args.alpha.null
    /\ Spr2VectorsNull(e.args)

Spr2ZeroBatchCase(e) ==
    /\ Spr2ValidCall(e)
    /\ e.args.N >= 0
    /\ e.args.batch_count = 0
    /\ e.args.alpha.null
    /\ Spr2VectorsNull(e.args)

Spr2ZeroAlphaCase(e) ==
    /\ Spr2ValidCall(e)
    /\ Spr2SizesPositive(e.args)
    /\ ~e.args.alpha.null
    /\ e.args.alpha.val = 0
    /\ Spr2VectorsNull(e.args)

MaxN == 2

MaxBatch == 2

MaxIters == 2

MaxSeed == 2

\* line 128: char2rocblas_fill
char2rocblas_fill(c) == IF c = "U" THEN "rocblas_fill_upper" ELSE "rocblas_fill_lower"

\* line 142: the number of elements of a packed triangle of order N
rocblas_packed_matrix_size(N) == (N * (N + 1)) \div 2

\* whether element (i, j), 0-based, is in the triangle uplo names
in_triangle(uplo, i, j) == IF uplo = "rocblas_fill_upper" THEN i <= j ELSE i >= j

\* the place (from 1) of element (i, j) in column-major packed storage
packed_index(uplo, N, i, j) ==
    IF uplo = "rocblas_fill_upper" THEN i + (j * (j + 1)) \div 2 + 1
    ELSE i + ((2 * N - j - 1) * j) \div 2 + 1

\* the element (i, j) stored at place k
packed_element(uplo, N, k) ==
    CHOOSE p \in (0..(N - 1)) \X (0..(N - 1)) :
        in_triangle(uplo, p[1], p[2]) /\ packed_index(uplo, N, p[1], p[2]) = k

\* lines 179-180: rocblas_init_matrix, a symmetric pseudo-random matrix per batch
rocblas_init_matrix(seed, N, batch_count) ==
    [b \in 1..batch_count |-> [i \in 1..N |-> [j \in 1..N |-> (seed + b + i * j) % 3]]]

\* lines 181-182: rocblas_init_vector, a pseudo-random vector per batch
rocblas_init_vector(seed, N, batch_count) ==
    [b \in 1..batch_count |-> [i \in 1..N |-> ((seed + 2 * b + i) % 3) - 1]]

\* line 185: regular_to_packed, the triangle of each hA[b] in packed storage
regular_to_packed(uplo, hA, N) ==
    [b \in 1..Len(hA) |->
        [k \in 1..rocblas_packed_matrix_size(N) |->
            LET p == packed_element(uplo, N, k) IN hA[b][p[1] + 1][p[2] + 1]]]

\* line 264: ref_spr2, AP := AP + alpha * x * y^T + alpha * y * x^T on the triangle
ref_spr2(uplo, N, alpha, x, y, AP) ==
    [k \in 1..Len(AP) |->
        LET p == packed_element(uplo, N, k)
            i == p[1] + 1
            j == p[2] + 1
        IN  AP[k] + alpha * x[i] * y[j] + alpha * y[i] * x[j]]

DevicePtr(v) == [null |-> FALSE, mem |-> "device", val |-> v]

\* what a successful rocblas_spr2_batched leaves in AP: the rank-2 update of
\* every batch
spr2_batched_AP(a) ==
    [b \in 1..a.batch_count |->
        ref_spr2(a.uplo, a.N, a.alpha.val, a.x.val[b], a.y.val[b], a.AP.val[b])]

\* lines 117-121 and DAPI_EXPECT / DAPI_CHECK / DAPI_DISPATCH
spr2t_fn(arg) ==
    IF arg.api \in {"C_64", "FORTRAN_64"} THEN "rocblas_spr2_batched_64"
    ELSE "rocblas_spr2_batched"

\* mutant: the test of incy left out
spr2t_invalid_size_noincy(arg) == arg.N < 0 \/ arg.incx = 0 \/ arg.batch_count < 0

\* line 133
spr2t_invalid_size(arg) ==
    arg.N < 0 \/ arg.incx = 0 \/ arg.incy = 0 \/ arg.batch_count < 0

\* line 134
spr2t_early(arg) == spr2t_invalid_size(arg) \/ arg.N = 0 \/ arg.batch_count = 0

\* line 130
spr2t_handle == [null |-> FALSE]

\* lines 136-138: the call of the early return, and the status it expects
spr2t_early_call(arg) ==
    Expect(136, IF spr2t_invalid_size(arg) THEN invalid_size ELSE success,
           Spr2Args(spr2t_handle, char2rocblas_fill(arg.uplo), arg.N, nullptr, nullptr,
                    arg.incx, nullptr, arg.incy, nullptr, arg.batch_count))

\* an entry of st_log: a library or reference call (its inputs `in`, the
\* matrix it leaves `out`, the status `got`) or a comparison (the buffers
\* compared in `in`, the outcome in `got`)
Spr2Event(op, line, mode, target, in, out, got) ==
    [op |-> op, line |-> line, mode |-> mode, target |-> target, in |-> in, out |-> out,
     got |-> got]

\* the values the Arguments of a run may have.  A run that returns at line
\* 139 reads none of the flags.
Spr2TestSizes ==
    [N : -1..MaxN, incx : {0, 1}, incy : {-1, 0}, batch_count : -1..MaxBatch,
     uplo : {"U", "L"}]

Spr2TestFlags ==
    [alpha : {0, 2}, unit_check : BOOLEAN, norm_check : BOOLEAN,
     repeatability_check : BOOLEAN, timing : BOOLEAN, iters : 1..MaxIters,
     cold_iters : {0, 1}, api : {"C", "C_64"}]

Spr2TestDefaults ==
    [alpha : {2}, unit_check : {TRUE}, norm_check : {FALSE},
     repeatability_check : {FALSE}, timing : {FALSE}, iters : {1},
     cold_iters : {0}, api : {"C", "C_64"}]

Spr2Join(s, f) ==
    [k \in DOMAIN s \cup DOMAIN f |-> IF k \in DOMAIN s THEN s[k] ELSE f[k]]

Spr2TestArgs ==
    {Spr2Join(s, f) : s \in {z \in Spr2TestSizes : spr2t_early(z)}, f \in Spr2TestDefaults}
    \cup {Spr2Join(s, f) : s \in {z \in Spr2TestSizes : ~spr2t_early(z)}, f \in Spr2TestFlags}

Spr2TestFrame == UNCHANGED <<hp_vars, tr_vars, sp_vars, b1_vars>>

Spr2TestInit ==
    /\ st_pc = "entry"
    /\ st_arg \in Spr2TestArgs
    /\ st_mem = [hA |-> <<>>]
    /\ st_i = 0
    /\ st_log = <<>>
    /\ HpmvIdle
    /\ TrtriIdle
    /\ Spr2Idle
    /\ Blas1Idle

\* lines 136-139: the sizes are invalid or empty; one call with null pointers
spr2t_EarlyReturn ==
    /\ st_pc = "entry"
    /\ spr2t_early(st_arg)
    /\ LET c == spr2t_early_call(st_arg)
       IN  \E got \in rocblas_spr2_batched("rocblas_pointer_mode_host", c.args) :
               st_log' = Append(st_log,
                   Spr2Event("expect", c.line, "rocblas_pointer_mode_host", "none",
                             [args |-> c.args, expect |-> c.expect, fn |-> spr2t_fn(st_arg)],
                             <<>>, got))
    /\ st_pc' = "done"
    /\ UNCHANGED <<st_arg, st_mem, st_i>>
    /\ Spr2TestFrame

\* lines 146-193: the buffers after allocation, initialization and the
\* first copies to the device; dAp_2 and d_alpha are allocated, not yet set
spr2t_setup_mem(arg, seed) ==
    LET hA == rocblas_init_matrix(seed, arg.N, arg.batch_count)
        hx == rocblas_init_vector(seed, arg.N, arg.batch_count)
        hy == rocblas_init_vector(seed + 1, arg.N, arg.batch_count)
        hAp_1 == regular_to_packed(char2rocblas_fill(arg.uplo), hA, arg.N)
    IN  [hA |-> hA, hAp_1 |-> hAp_1, hAp_2 |-> hAp_1, hAp_gold |-> hAp_1, hx |-> hx,
         hy |-> hy, halpha |-> <<arg.alpha>>, dAp_1 |-> hAp_1, dx |-> hx, dy |-> hy,
         dAp_2 |-> <<>>, d_alpha |-> <<>>, hAp_copy |-> <<>>]

\* lines 142-193
spr2t_Setup ==
    /\ st_pc = "entry"
    /\ ~spr2t_early(st_arg)
    /\ \E seed \in 1..MaxSeed : st_mem' = spr2t_setup_mem(st_arg, seed)
    /\ st_pc' = "check"
    /\ UNCHANGED <<st_arg, st_i, st_log>>
    /\ Spr2TestFrame

\* mutant: d_alpha is set from a scalar other than halpha
spr2t_check_copy_alpha(mem) ==
    [mem EXCEPT !.dAp_2 = mem.hAp_1, !.d_alpha = <<mem.halpha[1] + 1>>]

\* lines 202-203
spr2t_check_copy(mem) == [mem EXCEPT !.dAp_2 = mem.hAp_1, !.d_alpha = mem.halpha]

\* lines 199-203
spr2t_CheckCopy ==
    /\ st_pc = "check"
    /\ st_arg.unit_check \/ st_arg.norm_check
    /\ st_mem' = spr2t_check_copy(st_mem)
    /\ st_pc' = "host_call"
    /\ UNCHANGED <<st_arg, st_i, st_log>>
    /\ Spr2TestFrame

\* line 199, neither check asked for
spr2t_NoCheck ==
    /\ st_pc = "check"
    /\ ~(st_arg.unit_check \/ st_arg.norm_check)
    /\ st_pc' = "timing"
    /\ UNCHANGED <<st_arg, st_mem, st_i, st_log>>
    /\ Spr2TestFrame

\* lines 208-217, 303-312: the arguments of the host pointer mode calls
spr2t_host_args(arg, mem) ==
    Spr2Args(spr2t_handle, char2rocblas_fill(arg.uplo), arg.N, HostScalar(arg.alpha),
             DevicePtr(mem.dx), arg.incx, DevicePtr(mem.dy), arg.incy, DevicePtr(mem.dAp_1),
             arg.batch_count)

\* lines 223-232, 244-253: the arguments of the device pointer mode calls
spr2t_device_args(arg, mem) ==
    Spr2Args(spr2t_handle, char2rocblas_fill(arg.uplo), arg.N, DeviceScalar(mem.d_alpha[1]),
             DevicePtr(mem.dx), arg.incx, DevicePtr(mem.dy), arg.incy, DevicePtr(mem.dAp_2),
             arg.batch_count)

\* the inputs a call reads
spr2t_inputs(a) == [alpha |-> a.alpha.val, x |-> a.x.val, y |-> a.y.val, AP |-> a.AP.val]

\* the matrix a call leaves: updated when it succeeds, untouched when it fails
spr2t_output(a, got) == IF got = success THEN spr2_batched_AP(a) ELSE a.AP.val

\* lines 205-218: the call in host pointer mode, on dAp_1
spr2t_HostCall ==
    /\ st_pc = "host_call"
    /\ LET a == spr2t_host_args(st_arg, st_mem)
       IN  \E got \in rocblas_spr2_batched("rocblas_pointer_mode_host", a) :
               /\ st_mem' = [st_mem EXCEPT !.dAp_1 = spr2t_output(a, got)]
               /\ st_log' = Append(st_log,
                      Spr2Event("call", 207, "rocblas_pointer_mode_host", "dAp_1",
                                spr2t_inputs(a), spr2t_output(a, got), got))
    /\ st_pc' = "device_call"
    /\ UNCHANGED <<st_arg, st_i>>
    /\ Spr2TestFrame

\* lines 220-233: the call in device pointer mode, on dAp_2
spr2t_DeviceCall ==
    /\ st_pc = "device_call"
    /\ LET a == spr2t_device_args(st_arg, st_mem)
       IN  \E got \in rocblas_spr2_batched("rocblas_pointer_mode_device", a) :
               /\ st_mem' = [st_mem EXCEPT !.dAp_2 = spr2t_output(a, got)]
               /\ st_log' = Append(st_log,
                      Spr2Event("call", 222, "rocblas_pointer_mode_device", "dAp_2",
                                spr2t_inputs(a), spr2t_output(a, got), got))
    /\ st_pc' = "repeat"
    /\ UNCHANGED <<st_arg, st_i>>
    /\ Spr2TestFrame

\* unit_check_general and norm_check_general over batch_count matrices
spr2t_compare(op, line, mem, a, b, batch_count) ==
    Spr2Event(op, line, "none", b,
              [a |-> a, aval |-> mem[a], bval |-> mem[b], batch_count |-> batch_count],
              <<>>,
              IF \A n \in 1..batch_count : mem[a][n] = mem[b][n] THEN "equal" ELSE "differ")

\* lines 235-239: the repeatability check begins: hAp_2 keeps the result of
\* the first device pointer mode call
spr2t_RepeatBegin ==
    /\ st_pc = "repeat"
    /\ st_arg.repeatability_check
    /\ st_mem' = [st_mem EXCEPT !.hAp_2 = st_mem.dAp_2]
    /\ st_i' = 0
    /\ st_pc' = "repeat_loop"
    /\ UNCHANGED <<st_arg, st_log>>
    /\ Spr2TestFrame

\* lines 241-256: one pass of the loop: the call on dAp_2, the copy back to
\* hAp_copy, the comparison with hAp_2
spr2t_RepeatIter ==
    /\ st_pc = "repeat_loop"
    /\ st_i < st_arg.iters
    /\ LET a == spr2t_device_args(st_arg, st_mem)
       IN  \E got \in rocblas_spr2_batched("rocblas_pointer_mode_device", a) :
               LET out == spr2t_output(a, got)
                   mem == [st_mem EXCEPT !.dAp_2 = out, !.hAp_copy = out]
               IN  /\ st_mem' = mem
                   /\ st_log' = st_log \o
                          <<Spr2Event("call", 243, "rocblas_pointer_mode_device", "dAp_2",
                                      spr2t_inputs(a), out, got),
                            spr2t_compare("unit_check", 255, mem, "hAp_2", "hAp_copy",
                                          st_arg.batch_count)>>
    /\ st_i' = st_i + 1
    /\ UNCHANGED <<st_pc, st_arg>>
    /\ Spr2TestFrame

\* lines 241, 257: the loop is over, the test returns
spr2t_RepeatReturn ==
    /\ st_pc = "repeat_loop"
    /\ st_i >= st_arg.iters
    /\ st_pc' = "done"
    /\ UNCHANGED <<st_arg, st_mem, st_i, st_log>>
    /\ Spr2TestFrame

\* lines 262-265: ref_spr2 on every hAp_gold[b]
spr2t_ref(arg, mem) ==
    [b \in 1..arg.batch_count |->
        ref_spr2(char2rocblas_fill(arg.uplo), arg.N, arg.alpha, mem.hx[b], mem.hy[b],
                 mem.hAp_gold[b])]

\* lines 235 (no repeatability check), 260-266: the CPU reference
spr2t_CpuRef ==
    /\ st_pc = "repeat"
    /\ ~st_arg.repeatability_check
    /\ st_mem' = [st_mem EXCEPT !.hAp_gold = spr2t_ref(st_arg, st_mem)]
    /\ st_log' = Append(st_log,
           Spr2Event("ref", 264, "none", "hAp_gold",
                     [alpha |-> st_arg.alpha, x |-> st_mem.hx, y |-> st_mem.hy,
                      AP |-> st_mem.hAp_gold],
                     spr2t_ref(st_arg, st_mem), success))
    /\ st_pc' = "copy_back"
    /\ UNCHANGED <<st_arg, st_i>>
    /\ Spr2TestFrame

\* lines 269-270
spr2t_CopyBack ==
    /\ st_pc = "copy_back"
    /\ st_mem' = [st_mem EXCEPT !.hAp_1 = st_mem.dAp_1, !.hAp_2 = st_mem.dAp_2]
    /\ st_pc' = "compare"
    /\ UNCHANGED <<st_arg, st_i, st_log>>
    /\ Spr2TestFrame

\* lines 272-284: the comparisons made, in order
spr2t_comparisons(arg, mem) ==
    (IF arg.unit_check
     THEN <<spr2t_compare("unit_check", 274, mem, "hAp_gold", "hAp_1", arg.batch_count),
            spr2t_compare("unit_check", 275, mem, "hAp_gold", "hAp_2", arg.batch_count)>>
     ELSE <<>>)
    \o (IF arg.norm_check
        THEN <<spr2t_compare("norm_check", 281, mem, "hAp_gold", "hAp_1", arg.batch_count),
               spr2t_compare("norm_check", 283, mem, "hAp_gold", "hAp_2", arg.batch_count)>>
        ELSE <<>>)

\* lines 272-285
spr2t_Compare ==
    /\ st_pc = "compare"
    /\ st_log' = st_log \o spr2t_comparisons(st_arg, st_mem)
    /\ st_pc' = "timing"
    /\ UNCHANGED <<st_arg, st_mem, st_i>>
    /\ Spr2TestFrame

\* lines 287-295
spr2t_TimingBegin ==
    /\ st_pc = "timing"
    /\ st_arg.timing
    /\ st_i' = 0
    /\ st_pc' = "timing_loop"
    /\ UNCHANGED <<st_arg, st_mem, st_log>>
    /\ Spr2TestFrame

\* line 291
spr2t_total_calls(arg) == arg.cold_iters + arg.iters

\* lines 297-313: one timed or cold call, in host pointer mode on dAp_1; its
\* status is not looked at
spr2t_TimingIter ==
    /\ st_pc = "timing_loop"
    /\ st_i < spr2t_total_calls(st_arg)
    /\ LET a == spr2t_host_args(st_arg, st_mem)
       IN  \E got \in rocblas_spr2_batched("rocblas_pointer_mode_host", a) :
               /\ st_mem' = [st_mem EXCEPT !.dAp_1 = spr2t_output(a, got)]
               /\ st_log' = Append(st_log,
                      Spr2Event("dispatch", 302, "rocblas_pointer_mode_host", "dAp_1",
                                spr2t_inputs(a), spr2t_output(a, got), got))
    /\ st_i' = st_i + 1
    /\ UNCHANGED <<st_pc, st_arg>>
    /\ Spr2TestFrame

\* lines 315-326
spr2t_TimingEnd ==
    /\ st_pc = "timing_loop"
    /\ st_i >= spr2t_total_calls(st_arg)
    /\ st_pc' = "done"
    /\ UNCHANGED <<st_arg, st_mem, st_i, st_log>>
    /\ Spr2TestFrame

\* line 287, no timing asked for
spr2t_NoTiming ==
    /\ st_pc = "timing"
    /\ ~st_arg.timing
    /\ st_pc' = "done"
    /\ UNCHANGED <<st_arg, st_mem, st_i, st_log>>
    /\ Spr2TestFrame

Spr2TestNext ==
    \/ spr2t_EarlyReturn
    \/ spr2t_Setup
    \/ spr2t_CheckCopy
    \/ spr2t_NoCheck
    \/ spr2t_HostCall
    \/ spr2t_DeviceCall
    \/ spr2t_RepeatBegin
    \/ spr2t_RepeatIter
    \/ spr2t_RepeatReturn
    \/ spr2t_CpuRef
    \/ spr2t_CopyBack
    \/ spr2t_Compare
    \/ spr2t_TimingBegin
    \/ spr2t_TimingIter
    \/ spr2t_TimingEnd
    \/ spr2t_NoTiming

SpecSpr2Test == Spr2TestInit /\ [][Spr2TestNext]_vars

(***************************************************************************)
(* Claims about testing_spr2_batched                                       *)
(***************************************************************************)
Spr2TestLogged == 1..Len(st_log)

Spr2TestInvalidSize(a) == a.N < 0 \/ a.incx = 0 \/ a.incy = 0 \/ a.batch_count < 0

Spr2TestAllNull(a) == a.alpha.null /\ a.x.null /\ a.y.null /\ a.AP.null

Spr2RepeatChecks == {k \in Spr2TestLogged : st_log[k].op = "unit_check" /\ st_log[k].line = 255}

\* C12: with arg.repeatability_check set, after each of the arg.iters
\* repeated device pointer mode calls on dAp_2 the packed matrix read back
\* into hAp_copy equals, for every batch and element, the one read back into
\* hAp_2 after the first device pointer mode call.
C12_RepeatedCallsReproduce ==
    \A k \in Spr2RepeatChecks :
        /\ st_log[k].in.aval = st_log[k].in.bval
        /\ st_log[k].got = "equal"

\* the comparisons of lines 272-284 against the reference
Spr2GoldChecks ==
    {k \in Spr2TestLogged :
        st_log[k].op \in {"unit_check", "norm_check"} /\ st_log[k].line # 255}

\* the applications of the update to `target` made before entry k of the log
Spr2AppliedBefore(k, target) ==
    {h \in 1..(k - 1) :
        st_log[h].op \in {"call", "dispatch", "ref"} /\ st_log[h].target = target}

\* the test went past line 140 and is past line 285, in check mode without
\* the repeatability check
Spr2CheckModeDone ==
    /\ st_pc \in {"timing", "timing_loop", "done"}
    /\ ~spr2t_early(st_arg)
    /\ st_arg.unit_check \/ st_arg.norm_check
    /\ ~st_arg.repeatability_check

\* C16: in check mode without the repeatability check, the host pointer mode
\* call on dAp_1, the device pointer mode call on dAp_2 and the CPU
\* reference on hAp_gold each read the same packed matrix, the same x and y
\* and the same alpha, each is made exactly once before the comparison, and
\* the outputs of both GPU calls are compared with the output of the
\* reference over all batch_count batches.
C16_CheckModeComparesLikeWithLike ==
    /\ Spr2CheckModeDone =>
           \A b \in {"hAp_1", "hAp_2"} : \E k \in Spr2GoldChecks : st_log[k].target = b
    /\ \A k \in Spr2GoldChecks :
           LET H == Spr2AppliedBefore(k, "dAp_1")
               D == Spr2AppliedBefore(k, "dAp_2")
               R == Spr2AppliedBefore(k, "hAp_gold")
           IN  /\ Cardinality(H) = 1 /\ Cardinality(D) = 1 /\ Cardinality(R) = 1
               /\ \A h \in H, d \in D, r \in R :
                      /\ st_log[h].mode = "rocblas_pointer_mode_host"
                      /\ st_log[d].mode = "rocblas_pointer_mode_device"
                      /\ st_log[r].op = "ref"
                      /\ st_log[h].in = st_log[r].in
                      /\ st_log[d].in = st_log[r].in
                      /\ st_log[k].in.a = "hAp_gold"
                      /\ st_log[k].in.aval = st_log[r].out
                      /\ st_log[k].in.bval
                            = (IF st_log[k].target = "hAp_1" THEN st_log[h].out
                               ELSE st_log[d].out)
                      /\ st_log[k].in.batch_count = st_arg.batch_count
               /\ \E k2 \in Spr2GoldChecks :
                      /\ st_log[k2].op = st_log[k].op
                      /\ st_log[k2].target # st_log[k].target

\* a run with both checks and timing over two batches and a non-zero alpha
\* has ended: four comparisons made, and the timed calls after them
C16_Witness ==
    /\ st_pc = "done"
    /\ Spr2CheckModeDone
    /\ st_arg.unit_check /\ st_arg.norm_check /\ st_arg.timing
    /\ st_arg.batch_count = 2 /\ st_arg.N = 2 /\ st_arg.alpha # 0
    /\ Cardinality(Spr2GoldChecks) = 4
    /\ \A k \in Spr2GoldChecks : st_log[k].got = "equal"
    /\ \E h \in Spr2TestLogged : st_log[h].op = "dispatch"

(***************************************************************************)
(* testing_dot_bad_arg, the N <= 0 branch of testing_dot, and              *)
(* testing_nrm2_bad_arg.  A result location is <<>> until it is written    *)
(* and <<v>> once v has been stored in it.  A call is [line, expect, args, *)
(* dest]: dest names the location the result argument points to.           *)
(***************************************************************************)

\* rocblas_dot and rocblas_dotc (they differ in the product only): the
\* outcomes a call may have, [status, write], write being what it stores in
\* the result location.  A result pointer into the memory the pointer mode
\* does not name is undefined behaviour when the result is stored.
rocblas_dot(mode, a) ==
    LET stray == (mode = "rocblas_pointer_mode_host") # (a.result.mem = "host")
        store(v) ==
            IF stray
            THEN {[status |-> s, write |-> w] :
                     s \in {success, invalid_handle, invalid_value, invalid_size,
                            invalid_pointer, memory_error, internal_error},
                     w \in {<<>>, <<v>>}}
            ELSE {[status |-> success, write |-> <<v>>]}
    IN  IF a.handle.null THEN {[status |-> invalid_handle, write |-> <<>>]}
        ELSE IF a.N <= 0
        THEN IF a.result.null THEN {[status |-> invalid_pointer, write |-> <<>>]}
             ELSE store(0)
        ELSE IF a.x.null \/ a.y.null \/ a.result.null
        THEN {[status |-> invalid_pointer, write |-> <<>>]}
        ELSE UNION {store(v) : v \in {0, 1}}

\* rocblas_nrm2: as rocblas_dot, with one vector and incx <= 0 an empty one
rocblas_nrm2(mode, a) ==
    LET stray == (mode = "rocblas_pointer_mode_host") # (a.result.mem = "host")
        store(v) ==
            IF stray
            THEN {[status |-> s, write |-> w] :
                     s \in {success, invalid_handle, invalid_value, invalid_size,
                            invalid_pointer, memory_error, internal_error},
                     w \in {<<>>, <<v>>}}
            ELSE {[status |-> success, write |-> <<v>>]}
    IN  IF a.handle.null THEN {[status |-> invalid_handle, write |-> <<>>]}
        ELSE IF a.N <= 0 \/ a.incx <= 0
        THEN IF a.result.null THEN {[status |-> invalid_pointer, write |-> <<>>]}
             ELSE store(0)
        ELSE IF a.x.null \/ a.result.null
        THEN {[status |-> invalid_pointer, write |-> <<>>]}
        ELSE UNION {store(v) : v \in {0, 1}}

\* mutant: the calls with a null x and a null y pass dx and dy
dot_bad_arg_calls_valid(arg) ==
    LET h == [null |-> FALSE]
        d == DeviceBuffer
        args(hd, x, y, res) ==
            [handle |-> hd, N |-> arg.N, x |-> x, incx |-> arg.incx, y |-> y,
             incy |-> arg.incy, result |-> res]
    IN  <<[line |-> 69, expect |-> invalid_handle, args |-> args(nullptr, d, d, d),
           dest |-> "d_rocblas_result"],
          [line |-> 72, expect |-> invalid_pointer, args |-> args(h, d, d, d),
           dest |-> "d_rocblas_result"],
          [line |-> 75, expect |-> invalid_pointer, args |-> args(h, d, d, d),
           dest |-> "d_rocblas_result"],
          [line |-> 77, expect |-> invalid_pointer, args |-> args(h, d, d, nullptr),
           dest |-> "none"]>>

\* testing_dot.hpp lines 69-78: the calls of one pass of the loop
dot_bad_arg_calls(arg) ==
    LET h == [null |-> FALSE]
        d == DeviceBuffer
        args(hd, x, y, res) ==
            [handle |-> hd, N |-> arg.N, x |-> x, incx |-> arg.incx, y |-> y,
             incy |-> arg.incy, result |-> res]
    IN  <<[line |-> 69, expect |-> invalid_handle, args |-> args(nullptr, d, d, d),
           dest |-> "d_rocblas_result"],
          [line |-> 72, expect |-> invalid_pointer, args |-> args(h, nullptr, d, d),
           dest |-> "d_rocblas_result"],
          [line |-> 75, expect |-> invalid_pointer, args |-> args(h, d, nullptr, d),
           dest |-> "d_rocblas_result"],
          [line |-> 77, expect |-> invalid_pointer, args |-> args(h, d, d, nullptr),
           dest |-> "none"]>>

\* mutant: the host pointer mode call stores through d_rocblas_result too
dot_quick_calls_device(arg) ==
    LET args(res) ==
            [handle |-> [null |-> FALSE], N |-> arg.N, x |-> nullptr, incx |-> arg.incx,
             y |-> nullptr, incy |-> arg.incy, result |-> res]
    IN  <<[line |-> 119, mode |-> "rocblas_pointer_mode_device", expect |-> success,
           args |-> args(DeviceBuffer), dest |-> "d_rocblas_result"],
          [line |-> 123, mode |-> "rocblas_pointer_mode_host", expect |-> success,
           args |-> args(DeviceBuffer), dest |-> "d_rocblas_result"]>>

\* testing_dot.hpp lines 117-123: the two calls of the N <= 0 branch
dot_quick_calls(arg) ==
    LET args(res) ==
            [handle |-> [null |-> FALSE], N |-> arg.N, x |-> nullptr, incx |-> arg.incx,
             y |-> nullptr, incy |-> arg.incy, result |-> res]
    IN  <<[line |-> 119, mode |-> "rocblas_pointer_mode_device", expect |-> success,
           args |-> args(DeviceBuffer), dest |-> "d_rocblas_result"],
          [line |-> 123, mode |-> "rocblas_pointer_mode_host", expect |-> success,
           args |-> args([null |-> FALSE, mem |-> "host", val |-> 0]),
           dest |-> "h_rocblas_result"]>>

\* mutant: the null x and null result calls pass dx and d_rocblas_result
nrm2_bad_arg_calls_valid(arg) ==
    LET h == [null |-> FALSE]
        d == DeviceBuffer
        args(hd, x, res) ==
            [handle |-> hd, N |-> arg.N, x |-> x, incx |-> arg.incx, result |-> res]
    IN  <<[line |-> 37, expect |-> invalid_pointer, args |-> args(h, d, d),
           dest |-> "d_rocblas_result"],
          [line |-> 39, expect |-> invalid_pointer, args |-> args(h, d, d),
           dest |-> "d_rocblas_result"],
          [line |-> 41, expect |-> invalid_handle, args |-> args(nullptr, d, d),
           dest |-> "d_rocblas_result"]>>

\* testing_nrm2.hpp lines 37-42
nrm2_bad_arg_calls(arg) ==
    LET h == [null |-> FALSE]
        d == DeviceBuffer
        args(hd, x, res) ==
            [handle |-> hd, N |-> arg.N, x |-> x, incx |-> arg.incx, result |-> res]
    IN  <<[line |-> 37, expect |-> invalid_pointer, args |-> args(h, nullptr, d),
           dest |-> "d_rocblas_result"],
          [line |-> 39, expect |-> invalid_pointer, args |-> args(h, d, nullptr),
           dest |-> "none"],
          [line |-> 41, expect |-> invalid_handle, args |-> args(nullptr, d, d),
           dest |-> "d_rocblas_result"]>>

\* the tests, their template parameters and the Arguments they read:
\* testing_dot_bad_arg and testing_nrm2_bad_arg fix N and the increments,
\* testing_dot is taken with N <= 0; arg.fortran of testing_nrm2_bad_arg is
\* api = "FORTRAN"
Blas1Inputs ==
    [test : {"testing_dot_bad_arg"}, T : {"float", "double"}, CONJ : BOOLEAN,
     api : {"C", "FORTRAN"}, N : {100}, incx : {1}, incy : {1}]
    \cup [test : {"testing_dot"}, T : {"float", "double"}, CONJ : BOOLEAN,
          api : {"C", "FORTRAN"}, N : {-1, 0}, incx : {-1, 0, 1}, incy : {-1, 1}]
    \cup [test : {"testing_nrm2_bad_arg"}, T : {"float", "double"}, CONJ : {FALSE},
          api : {"C", "FORTRAN"}, N : {100}, incx : {1}, incy : {1}]

Blas1Frame == UNCHANGED <<hp_vars, tr_vars, sp_vars, st_vars>>

Blas1Init ==
    /\ b1_pc = "entry"
    /\ b1_arg \in Blas1Inputs
    /\ b1_mode = "none"
    /\ b1_step = 0
    /\ b1_mem = [d_rocblas_result |-> <<>>, h_rocblas_result |-> <<>>]
    /\ b1_log = <<>>
    /\ HpmvIdle
    /\ TrtriIdle
    /\ Spr2Idle
    /\ Spr2TestIdle

\* testing_dot.hpp lines 48-65: a pass of the loop begins, with its own
\* handle, pointer mode and buffers
dotba_BeginMode ==
    /\ b1_arg.test = "testing_dot_bad_arg"
    /\ b1_pc \in {"entry", "mode"}
    /\ b1_mode # "rocblas_pointer_mode_device"
    /\ b1_mode' = (IF b1_mode = "none" THEN "rocblas_pointer_mode_host"
                   ELSE "rocblas_pointer_mode_device")
    /\ b1_mem' = [d_rocblas_result |-> <<>>, h_rocblas_result |-> <<>>]
    /\ b1_step' = 1
    /\ b1_pc' = "calls"
    /\ UNCHANGED <<b1_arg, b1_log>>
    /\ Blas1Frame

\* testing_dot.hpp lines 44-46, 69-78: one EXPECT_ROCBLAS_STATUS
dotba_Call ==
    /\ b1_arg.test = "testing_dot_bad_arg"
    /\ b1_pc = "calls"
    /\ b1_step <= Len(dot_bad_arg_calls(b1_arg))
    /\ LET c == dot_bad_arg_calls(b1_arg)[b1_step]
       IN  \E r \in rocblas_dot(b1_mode, c.args) :
               /\ b1_mem' = IF r.write = <<>> \/ c.dest = "none" THEN b1_mem
                            ELSE [b1_mem EXCEPT ![c.dest] = r.write]
               /\ b1_log' = Append(b1_log,
                      [op |-> "call", line |-> c.line, mode |-> b1_mode,
                       fn |-> [name |-> IF b1_arg.CONJ THEN "rocblas_dotc" ELSE "rocblas_dot",
                               fortran |-> b1_arg.api = "FORTRAN"],
                       args |-> c.args, expect |-> c.expect, got |-> r.status,
                       wrote |-> r.write, dest |-> c.dest])
    /\ b1_step' = b1_step + 1
    /\ UNCHANGED <<b1_pc, b1_arg, b1_mode>>
    /\ Blas1Frame

\* testing_dot.hpp line 79: the pass ends
dotba_EndMode ==
    /\ b1_arg.test = "testing_dot_bad_arg"
    /\ b1_pc = "calls"
    /\ b1_step > Len(dot_bad_arg_calls(b1_arg))
    /\ b1_pc' = "mode"
    /\ UNCHANGED <<b1_arg, b1_mode, b1_step, b1_mem, b1_log>>
    /\ Blas1Frame

\* testing_dot.hpp lines 48, 80: both pointer modes done
dotba_Done ==
    /\ b1_arg.test = "testing_dot_bad_arg"
    /\ b1_pc = "mode"
    /\ b1_mode = "rocblas_pointer_mode_device"
    /\ b1_pc' = "done"
    /\ UNCHANGED <<b1_arg, b1_mode, b1_step, b1_mem, b1_log>>
    /\ Blas1Frame

\* testing_dot.hpp lines 109-123: rocblas_set_pointer_mode and one call of
\* the N <= 0 branch
dot_QuickCall ==
    /\ b1_arg.test = "testing_dot"
    /\ b1_arg.N <= 0
    /\ b1_pc \in {"entry", "calls"}
    /\ b1_step < Len(dot_quick_calls(b1_arg))
    /\ LET c == dot_quick_calls(b1_arg)[b1_step + 1]
       IN  /\ b1_mode' = c.mode
           /\ \E r \in rocblas_dot(c.mode, c.args) :
                  /\ b1_mem' = IF r.write = <<>> \/ c.dest = "none" THEN b1_mem
                               ELSE [b1_mem EXCEPT ![c.dest] = r.write]
                  /\ b1_log' = Append(b1_log,
                         [op |-> "call", line |-> c.line, mode |-> c.mode,
                          fn |-> [name |-> IF b1_arg.CONJ THEN "rocblas_dotc"
                                           ELSE "rocblas_dot",
                                  fortran |-> b1_arg.api = "FORTRAN"],
                          args |-> c.args, expect |-> c.expect, got |-> r.status,
                          wrote |-> r.write, dest |-> c.dest])
    /\ b1_step' = b1_step + 1
    /\ b1_pc' = "calls"
    /\ UNCHANGED b1_arg
    /\ Blas1Frame

\* testing_dot.hpp lines 125-132: both results are read and compared with
\* T(0); a location never written holds any value
dot_Check ==
    /\ b1_arg.test = "testing_dot"
    /\ b1_pc = "calls"
    /\ b1_step >= Len(dot_quick_calls(b1_arg))
    /\ LET outcomes(v) == IF v = <<>> THEN {"equal", "differ"}
                          ELSE IF v = <<0>> THEN {"equal"} ELSE {"differ"}
           check(line, dest, v, got) ==
               [op |-> "unit_check", line |-> line, mode |-> "none",
                fn |-> [name |-> "unit_check_general", fortran |-> FALSE],
                args |-> [cpu_0 |-> <<0>>, gpu |-> v], expect |-> "equal", got |-> got,
                wrote |-> <<>>, dest |-> dest]
       IN  \E g0 \in outcomes(b1_mem.d_rocblas_result),
              g1 \in outcomes(b1_mem.h_rocblas_result) :
               b1_log' = b1_log \o
                   <<check(129, "gpu_0", b1_mem.d_rocblas_result, g0),
                     check(130, "gpu_1", b1_mem.h_rocblas_result, g1)>>
    /\ b1_pc' = "done"
    /\ UNCHANGED <<b1_arg, b1_mode, b1_step, b1_mem>>
    /\ Blas1Frame

\* testing_nrm2.hpp lines 21-35: buffers, and the handle in device pointer mode
nrm2ba_Begin ==
    /\ b1_arg.test = "testing_nrm2_bad_arg"
    /\ b1_pc = "entry"
    /\ b1_mode' = "rocblas_pointer_mode_device"
    /\ b1_step' = 1
    /\ b1_pc' = "calls"
    /\ UNCHANGED <<b1_arg, b1_mem, b1_log>>
    /\ Blas1Frame

\* testing_nrm2.hpp lines 22, 37-42: one EXPECT_ROCBLAS_STATUS
nrm2ba_Call ==
    /\ b1_arg.test = "testing_nrm2_bad_arg"
    /\ b1_pc = "calls"
    /\ b1_step <= Len(nrm2_bad_arg_calls(b1_arg))
    /\ LET c == nrm2_bad_arg_calls(b1_arg)[b1_step]
       IN  \E r \in rocblas_nrm2(b1_mode, c.args) :
               /\ b1_mem' = IF r.write = <<>> \/ c.dest = "none" THEN b1_mem
                            ELSE [b1_mem EXCEPT ![c.dest] = r.write]
               /\ b1_log' = Append(b1_log,
                      [op |-> "call", line |-> c.line, mode |-> b1_mode,
                       fn |-> [name |-> "rocblas_nrm2", fortran |-> b1_arg.api = "FORTRAN"],
                       args |-> c.args, expect |-> c.expect, got |-> r.status,
                       wrote |-> r.write, dest |-> c.dest])
    /\ b1_step' = b1_step + 1
    /\ UNCHANGED <<b1_pc, b1_arg, b1_mode>>
    /\ Blas1Frame

\* testing_nrm2.hpp line 43
nrm2ba_Done ==
    /\ b1_arg.test = "testing_nrm2_bad_arg"
    /\ b1_pc = "calls"
    /\ b1_step > Len(nrm2_bad_arg_calls(b1_arg))
    /\ b1_pc' = "done"
    /\ UNCHANGED <<b1_arg, b1_mode, b1_step, b1_mem, b1_log>>
    /\ Blas1Frame

Blas1Next ==
    \/ dotba_BeginMode
    \/ dotba_Call
    \/ dotba_EndMode
    \/ dotba_Done
    \/ dot_QuickCall
    \/ dot_Check
    \/ nrm2ba_Begin
    \/ nrm2ba_Call
    \/ nrm2ba_Done

SpecBlas1 == Blas1Init /\ [][Blas1Next]_vars

(***************************************************************************)
(* Claims about rocblas_dot, rocblas_dotc and rocblas_nrm2, as their tests *)
(* call them                                                               *)
(***************************************************************************)
Blas1Calls == {k \in 1..Len(b1_log) : b1_log[k].op = "call"}

Blas1Checks == {k \in 1..Len(b1_log) : b1_log[k].op = "unit_check"}

====
